---- MODULE Spec2Model ----
(***************************************************************************)
(* Credit-Risk-Prediction dashboards: the load -> filter -> aggregate ->   *)
(* summarize pipeline of streamlit_dashboard.py, updated_dashboard.py and  *)
(* run_dashboard.py.                                                       *)
(*                                                                         *)
(* Numeric columns (Age, Credit amount, Duration) are read by pd.read_csv  *)
(* as int64 or float64.  A value is modelled by its numerator over the     *)
(* fixed denominator Scale, so 5 stands for 2.5 when Scale = 2.            *)
(* A mean is the exact rational [nan, num, den]; the mean of no rows is    *)
(* NaN, as pandas returns it.                                              *)
(* Strings built by f-strings are sequences of string tokens.              *)
(***************************************************************************)
EXTENDS Integers, Sequences, FiniteSets, TLC

\* ------------------------------------------------------------------ bounds
\* Rows of the input table.
MaxRows == 2

\* Largest age (in years) of the files that sweep the Age column.
MaxAge == 101

\* Denominator of the numeric columns: values are multiples of 1/Scale.
Scale == 2

\* ------------------------------------------------------------- input rows
\* Rows of german_credit_data.csv as pd.read_csv returns them: "NaN" is a
\* missing cell of the two account columns.  Ages 25 and 26, credit amounts
\* 1, 2 and 2 + 1/Scale, durations 6, 12 and 18.
NaNCell == "NaN"

RawRows ==
  { [Age |-> 25 * Scale, Sex |-> "male",   Job |-> 2, Housing |-> "own",
     Saving |-> NaNCell,  Checking |-> "little",
     Credit |-> 1 * Scale, Duration |-> 6 * Scale, Purpose |-> "car"],
    [Age |-> 26 * Scale, Sex |-> "female", Job |-> 1, Housing |-> "rent",
     Saving |-> "little", Checking |-> NaNCell,
     Credit |-> 2 * Scale + 1, Duration |-> 12 * Scale,
     Purpose |-> "radio/TV"],
    [Age |-> 26 * Scale, Sex |-> "male",   Job |-> 2, Housing |-> "own",
     Saving |-> "rich",   Checking |-> "moderate",
     Credit |-> 2 * Scale, Duration |-> 18 * Scale,
     Purpose |-> "radio/TV"] }

RawTables == UNION { [1..n -> RawRows] : n \in 1..MaxRows }

\* The columns every entry point reads from the file.
Columns ==
  { "Age", "Sex", "Job", "Housing", "Saving", "Checking", "Credit",
    "Duration", "Purpose" }

\* The records of a file that lacks one column: the field of the missing
\* column is carried by the record but no step that runs ever reads it.
ShortTable ==
  << [Age |-> 25 * Scale, Sex |-> "male", Job |-> 2, Housing |-> "own",
      Saving |-> NaNCell, Checking |-> "little",
      Credit |-> 1 * Scale, Duration |-> 6 * Scale, Purpose |-> "car"],
     [Age |-> 26 * Scale, Sex |-> "male", Job |-> 2, Housing |-> "own",
      Saving |-> "rich", Checking |-> "moderate",
      Credit |-> 2 * Scale, Duration |-> 18 * Scale,
      Purpose |-> "radio/TV"] >>

\* -------------------------------------------------------------- arithmetic
Range(s) == { s[i] : i \in DOMAIN s }

SetMin(S) == CHOOSE x \in S : \A y \in S : x <= y

SetMax(S) == CHOOSE x \in S : \A y \in S : y <= x

Abs(x) == IF x < 0 THEN -x ELSE x

\* int(x) of a non-negative pandas scalar: truncation toward zero
\* (streamlit_dashboard.py: int(df['Age'].min()) and the like).
IntOf(x) == IF x >= 0 THEN x \div Scale ELSE -((-x) \div Scale)

RECURSIVE SumCol(_, _)
SumCol(rows, col) ==
  IF rows = <<>> THEN 0
  ELSE rows[1][col] + SumCol(Tail(rows), col)

NaN == [nan |-> TRUE, num |-> 0, den |-> 1]

\* Series.mean(): NaN on an empty column, else sum / count.
Mean(rows, col) ==
  IF Len(rows) = 0 THEN NaN
  ELSE [nan |-> FALSE, num |-> SumCol(rows, col), den |-> Len(rows) * Scale]

\* float subtraction: NaN is absorbing.
Minus(a, b) ==
  IF a.nan \/ b.nan THEN NaN
  ELSE [nan |-> FALSE, num |-> a.num * b.den - b.num * a.den,
        den |-> a.den * b.den]

\* round-half-even of |num| / den, as format(x, '.0f') rounds.
RoundHalfEven(num, den) ==
  LET q == num \div den
      r == num % den
  IN  IF 2 * r < den THEN q
      ELSE IF 2 * r > den THEN q + 1
      ELSE IF q % 2 = 0 THEN q ELSE q + 1

\* format(x, ',.0f'): "nan" for NaN, else the rounded integer with its sign.
Fmt0(x) ==
  IF x.nan THEN "nan"
  ELSE (IF x.num < 0 THEN "-" ELSE "")
       \o ToString(RoundHalfEven(Abs(x.num), x.den))

\* format(x, '.1f'): one decimal digit.
Fmt1(x) ==
  IF x.nan THEN "nan"
  ELSE LET t == RoundHalfEven(Abs(x.num) * 10, x.den)
       IN  (IF x.num < 0 THEN "-" ELSE "")
           \o ToString(t \div 10) \o "." \o ToString(t % 10)

\* ------------------------------------------------------------ load_data
\* The same bins closed on the left (pd.cut(..., right=False)).
AgeGroup_leftclosed(age) ==
  IF age < 0 THEN NaNCell
  ELSE IF age < 25 * Scale THEN "18-25"
  ELSE IF age < 35 * Scale THEN "26-35"
  ELSE IF age < 45 * Scale THEN "36-45"
  ELSE IF age < 55 * Scale THEN "46-55"
  ELSE IF age < 100 * Scale THEN "55+"
  ELSE NaNCell

\* pd.cut(Age, bins=[0,25,35,45,55,100], labels=[...]): right-inclusive
\* intervals, NaN outside (0, 100].
AgeGroup(age) ==
  IF age <= 0 THEN NaNCell
  ELSE IF age <= 25 * Scale THEN "18-25"
  ELSE IF age <= 35 * Scale THEN "26-35"
  ELSE IF age <= 45 * Scale THEN "36-45"
  ELSE IF age <= 55 * Scale THEN "46-55"
  ELSE IF age <= 100 * Scale THEN "55+"
  ELSE NaNCell

CreditLabels == <<"Very Low", "Low", "Medium", "High", "Very High">>

\* pd.cut(x, bins=5): five equal-width right-inclusive bins over [mn, mx],
\* the lowest edge moved down so that mn falls in the first bin; when
\* mn = mx the range is widened on both sides and mn sits in the middle bin.
CreditBin(x, mn, mx) ==
  IF mn = mx THEN 3
  ELSE IF x = mn THEN 1
  ELSE CHOOSE i \in 1..5 :
         /\ 5 * (x - mn) <= i * (mx - mn)
         /\ \A j \in 1..(i - 1) : 5 * (x - mn) > j * (mx - mn)

CreditGroup(x, rows) ==
  LET col == { rows[i].Credit : i \in DOMAIN rows }
  IN  CreditLabels[CreditBin(x, SetMin(col), SetMax(col))]

\* A load that leaves missing cells as they are.
FillNa_skip(v) == v

\* fillna('unknown')
FillNa(v) == IF v = NaNCell THEN "unknown" ELSE v

\* df_clean of one raw table: the two fillna calls and the two pd.cut calls.
Clean(raw) ==
  [i \in DOMAIN raw |->
     [Age |-> raw[i].Age, Sex |-> raw[i].Sex, Job |-> raw[i].Job,
      Housing |-> raw[i].Housing,
      Saving |-> FillNa(raw[i].Saving),
      Checking |-> FillNa(raw[i].Checking),
      Credit |-> raw[i].Credit, Duration |-> raw[i].Duration,
      Purpose |-> raw[i].Purpose,
      Age_Group |-> AgeGroup(raw[i].Age),
      Credit_Amount_Group |-> CreditGroup(raw[i].Credit, raw)]]

\* ------------------------------------------------------------ filtering
Column(rows, col) == { rows[i][col] : i \in DOMAIN rows }

\* A between() that puts swapped ends in order before comparing.
Between_sorted(x, lo, hi) ==
  /\ (IF lo <= hi THEN lo ELSE hi) * Scale <= x
  /\ x <= (IF lo <= hi THEN hi ELSE lo) * Scale

\* A between() that leaves the upper end out.
Between_exclusive(x, lo, hi) == lo * Scale <= x /\ x < hi * Scale

\* Series.between(lo, hi): inclusive on both ends; lo and hi are the
\* slider's integers, the column holds values over Scale.
Between(x, lo, hi) == lo * Scale <= x /\ x <= hi * Scale

\* The boolean mask of main():
\*   isin(selected_purpose) & isin(selected_housing)
\*   & Age.between(...) & Credit amount.between(...)
Passes(r, fs) ==
  /\ r.Purpose \in fs.purposes
  /\ r.Housing \in fs.housing_types
  /\ Between(r.Age, fs.age_min, fs.age_max)
  /\ Between(r.Credit, fs.credit_min, fs.credit_max)

\* A filter that cuts the buckets again from the rows it keeps.
Apply_rebucket(rows, fs) ==
  Clean(SelectSeq(rows, LAMBDA r : Passes(r, fs)))

\* filtered_df = df[mask]: the rows whose mask is True, in the order of df.
Apply(rows, fs) == SelectSeq(rows, LAMBDA r : Passes(r, fs))

\* The widgets' default values: every observed purpose and housing type,
\* sliders from int(min) to int(max).
DefaultSpec(rows) ==
  [purposes |-> Column(rows, "Purpose"),
   housing_types |-> Column(rows, "Housing"),
   age_min |-> IntOf(SetMin(Column(rows, "Age"))),
   age_max |-> IntOf(SetMax(Column(rows, "Age"))),
   credit_min |-> IntOf(SetMin(Column(rows, "Credit"))),
   credit_max |-> IntOf(SetMax(Column(rows, "Credit")))]

\* Every value the four widgets can return for this dataset: a multiselect
\* returns a subset of its options, a range slider a pair lo <= hi inside
\* [min_value, max_value].
FilterSpecs(rows) ==
  LET d == DefaultSpec(rows)
  IN  { fs \in [purposes : SUBSET d.purposes,
                housing_types : SUBSET d.housing_types,
                age_min : d.age_min..d.age_max,
                age_max : d.age_min..d.age_max,
                credit_min : d.credit_min..d.credit_max,
                credit_max : d.credit_min..d.credit_max] :
          fs.age_min <= fs.age_max /\ fs.credit_min <= fs.credit_max }

\* ---------------------------------------------------------- aggregation
\* len(view) and the three means that feed the metrics and the summary.
Summary(rows) ==
  [total_records |-> Len(rows),
   avg_credit |-> Mean(rows, "Credit"),
   avg_age |-> Mean(rows, "Age"),
   avg_duration |-> Mean(rows, "Duration")]

NoStats ==
  [total_records |-> 0, avg_credit |-> NaN, avg_age |-> NaN,
   avg_duration |-> NaN]

\* The four st.metric cards: value and delta strings as the f-strings of
\* main() render them (thousands separators never arise at these sizes).
Metrics(rows, all) ==
  [total |-> ToString(Len(rows)),
   total_delta |-> (IF Len(rows) - Len(all) < 0 THEN "-" ELSE "")
                   \o ToString(Abs(Len(rows) - Len(all))) \o " from total",
   credit |-> "$" \o Fmt0(Mean(rows, "Credit")),
   credit_delta |->
     "$" \o Fmt0(Minus(Mean(rows, "Credit"), Mean(all, "Credit"))),
   duration |-> Fmt0(Mean(rows, "Duration")) \o " months",
   duration_delta |->
     Fmt0(Minus(Mean(rows, "Duration"), Mean(all, "Duration"))) \o " months",
   age |-> Fmt0(Mean(rows, "Age")) \o " years",
   age_delta |->
     Fmt0(Minus(Mean(rows, "Age"), Mean(all, "Age"))) \o " years"]

NoMetrics ==
  [total |-> "", total_delta |-> "", credit |-> "", credit_delta |-> "",
   duration |-> "", duration_delta |-> "", age |-> "", age_delta |-> ""]

\* Sort orders of the grouping keys: groupby sorts its keys, strings
\* lexicographically, the categorical Age_Group by category order.
AgeGroupOrder == <<"18-25", "26-35", "36-45", "46-55", "55+">>

SexOrder == <<"female", "male">>

HousingOrder == <<"free", "own", "rent">>

JobOrder == <<0, 1, 2, 3>>

SavingOrder == <<"little", "moderate", "quite rich", "rich", "unknown">>

CheckingOrder == <<"little", "moderate", "rich", "unknown">>

CountWhere(rows, k1, v1, k2, v2) ==
  Len(SelectSeq(rows, LAMBDA r : r[k1] = v1 /\ r[k2] = v2))

\* The key pairs of the records in the order the records first show them.
RECURSIVE FirstSeenPairs(_, _, _)
FirstSeenPairs(rows, k1, k2) ==
  IF rows = <<>> THEN <<>>
  ELSE LET rest == FirstSeenPairs(SubSeq(rows, 1, Len(rows) - 1), k1, k2)
           p == <<rows[Len(rows)][k1], rows[Len(rows)][k2]>>
       IN  IF \E n \in DOMAIN rest : rest[n] = p THEN rest
           ELSE Append(rest, p)

\* A grouped count that keeps the groups in first-seen order
\* (groupby(..., sort=False)).
GroupCount_firstseen(rows, k1, o1, k2, o2) ==
  LET seen == FirstSeenPairs(rows, k1, k2)
  IN  [n \in DOMAIN seen |->
         [key |-> seen[n],
          Count |-> CountWhere(rows, k1, seen[n][1], k2, seen[n][2])]]

\* groupby([k1, k2]).size().reset_index(name='Count') with observed groups
\* only: one row per observed key pair, in sorted key order (sort=True is
\* the default of groupby).
GroupCount(rows, k1, o1, k2, o2) ==
  LET pairs == [n \in 1..(Len(o1) * Len(o2)) |->
                  <<o1[((n - 1) \div Len(o2)) + 1],
                    o2[((n - 1) % Len(o2)) + 1]>>]
      seen == SelectSeq(pairs,
                LAMBDA p : CountWhere(rows, k1, p[1], k2, p[2]) > 0)
  IN  [n \in DOMAIN seen |->
         [key |-> seen[n],
          Count |-> CountWhere(rows, k1, seen[n][1], k2, seen[n][2])]]

\* The same call when the first key is categorical and groupby keeps
\* unobserved categories (observed=False, the default before pandas 3):
\* every category of the first key crossed with the observed values of the
\* second, in sorted key order, with zero counts.
GroupCountAll(rows, k1, o1, k2, o2) ==
  LET vals == SelectSeq(o2, LAMBDA v : \E i \in DOMAIN rows : rows[i][k2] = v)
      pairs == [n \in 1..(Len(o1) * Len(vals)) |->
                  <<o1[((n - 1) \div Len(vals)) + 1],
                    vals[((n - 1) % Len(vals)) + 1]>>]
  IN  [n \in DOMAIN pairs |->
         [key |-> pairs[n],
          Count |-> CountWhere(rows, k1, pairs[n][1], k2, pairs[n][2])]]

RECURSIVE FirstSeen(_, _)
FirstSeen(rows, col) ==
  IF rows = <<>> THEN <<>>
  ELSE LET rest == FirstSeen(SubSeq(rows, 1, Len(rows) - 1), col)
           v == rows[Len(rows)][col]
       IN  IF v \in Range(rest) THEN rest ELSE Append(rest, v)

CountOf(rows, col, v) == Len(SelectSeq(rows, LAMBDA r : r[col] = v))

\* Insert one (value, count) entry behind every entry of equal or greater
\* count: a stable descending sort.
RECURSIVE InsertByCount(_, _)
InsertByCount(tab, e) ==
  IF tab = <<>> THEN <<e>>
  ELSE IF tab[1].Count >= e.Count
       THEN <<tab[1]>> \o InsertByCount(Tail(tab), e)
       ELSE <<e>> \o tab

RECURSIVE SortByCount(_)
SortByCount(tab) ==
  IF tab = <<>> THEN <<>>
  ELSE InsertByCount(SortByCount(SubSeq(tab, 1, Len(tab) - 1)),
                     tab[Len(tab)])

\* Series.value_counts() when the sort keeps equal counts in their input
\* order: one entry per distinct value, descending count, ties first-seen.
ValueCounts(rows, col) ==
  LET vals == FirstSeen(rows, col)
  IN  SortByCount([n \in DOMAIN vals |->
                     [key |-> vals[n], Count |-> CountOf(rows, col, vals[n])]])

\* Series.value_counts(): the counts are collected in first-seen order and
\* ordered by sort_values(ascending=False) with the default kind
\* 'quicksort', which is not a stable sort: entries of equal count can come
\* out in any order.
ValueCountsAny(rows, col) ==
  LET tab == ValueCounts(rows, col)
  IN  { t \in [DOMAIN tab -> Range(tab)] :
          /\ \A e \in Range(tab) : \E n \in DOMAIN t : t[n] = e
          /\ \A n, m \in DOMAIN t : n < m => t[n].Count >= t[m].Count }

\* The count tables behind the bar and pie charts of one render.
Charts(rows) ==
  [made |-> TRUE,
   age_sex_counts |->
     GroupCount(rows, "Age_Group", AgeGroupOrder, "Sex", SexOrder),
   purpose_counts |-> ValueCounts(rows, "Purpose"),
   housing_job |-> GroupCount(rows, "Housing", HousingOrder, "Job", JobOrder),
   savings_checking |->
     GroupCount(rows, "Saving", SavingOrder, "Checking", CheckingOrder)]

\* The tables one render can produce: Age_Group is the only categorical
\* key, and whether its unobserved brackets are listed depends on the
\* installed pandas; the purposes of equal count come in any order.
ChartTables(rows) ==
  { [Charts(rows) EXCEPT !.age_sex_counts = a, !.purpose_counts = p] :
      a \in { GroupCount(rows, "Age_Group", AgeGroupOrder, "Sex", SexOrder),
              GroupCountAll(rows, "Age_Group", AgeGroupOrder,
                            "Sex", SexOrder) },
      p \in ValueCountsAny(rows, "Purpose") }

NoCharts ==
  [made |-> FALSE, age_sex_counts |-> <<>>, purpose_counts |-> <<>>,
   housing_job |-> <<>>, savings_checking |-> <<>>]

\* ------------------------------------------------------- summary text
\* str(e) of the exceptions client.chat.completions.create can raise
\* (APITimeoutError, AuthenticationError and the other APIError classes);
\* all of them are subclasses of Exception.
Errors == { "Request timed out.", "Incorrect API key provided" }

\* A handler that names one exception class only.
Caught_narrow == { "Incorrect API key provided" }

\* What `except Exception as e` catches.
Caught == Errors

\* response.choices[0].message.content
Contents == { "Key insights: ..." }

LiveMarker == "[robot] **Live AI Analysis** (GPT-3.5-turbo)"

DemoMarker == "[magnifier] **AI Credit Risk Analysis** (Demo Mode)"

ProfessionalHeader == "**Professional Credit Risk Analysis**"

ErrorLabel == "[warning] OpenAI Error: "

\* The prompt f-string of generate_ai_analysis / generate_credit_analysis.
Prompt(a, st) ==
  IF a = "streamlit"
  THEN << "Analyze this German credit risk dataset and provide professional insights:",
          "Total records: ", ToString(st.total_records),
          "Average credit amount: $", Fmt0(st.avg_credit),
          "Average age: ", Fmt1(st.avg_age), " years",
          "Average duration: ", Fmt1(st.avg_duration), " months",
          "Risk distribution: ", "Mixed portfolio" >>
  ELSE << "Analyze this German credit risk dataset and provide actionable insights:",
          "Total records: ", ToString(st.total_records),
          "Average credit amount: $", Fmt0(st.avg_credit),
          "Average age: ", Fmt1(st.avg_age), " years",
          "Average duration: ", Fmt1(st.avg_duration), " months",
          "High risk percentage: ", "30.0", "%" >>

\* The string returned after a successful request.
Live(a, content) ==
  IF a = "streamlit" THEN << content >>
  ELSE << LiveMarker, content >>

\* An except branch whose template prints the size of the full dataset
\* instead of the count it was given.
Fallback_fixedcount(a, st, e) ==
  IF a = "streamlit"
  THEN << ProfessionalHeader,
          "Portfolio size: ", "1000", " active accounts",
          "Average exposure: $", Fmt0(st.avg_credit), " per account",
          "Client demographics: Average age ", Fmt1(st.avg_age), " years",
          "Note: Live AI analysis requires OpenAI API connectivity" >>
  ELSE << DemoMarker,
          "1000", " credit applications analyzed",
          "Average credit amount: $", Fmt0(st.avg_credit),
          "High-risk applications: ", "30.0", "%",
          ErrorLabel, e >>

\* The string returned from the except branch.
Fallback(a, st, e) ==
  IF a = "streamlit"
  THEN << ProfessionalHeader,
          "Portfolio size: ", ToString(st.total_records), " active accounts",
          "Average exposure: $", Fmt0(st.avg_credit), " per account",
          "Client demographics: Average age ", Fmt1(st.avg_age), " years",
          "Note: Live AI analysis requires OpenAI API connectivity" >>
  ELSE << DemoMarker,
          ToString(st.total_records), " credit applications analyzed",
          "Average credit amount: $", Fmt0(st.avg_credit),
          "High-risk applications: ", "30.0", "%",
          ErrorLabel, e >>

RECURSIVE StrLen(_)
StrLen(toks) ==
  IF toks = <<>> THEN 0 ELSE Len(toks[1]) + StrLen(Tail(toks))

\* ------------------------------------------------------------------ state
VARIABLES
  app,        \* which entry point runs: "streamlit", "updated" or "run"
  file,       \* german_credit_data.csv: [status, missing, rows]
  df,         \* the loaded Dataset (df / df_clean), <<>> before load
  pc,         \* position of the script run / callback
  spec,       \* the widgets' values of the current run (FilterSpec)
  view,       \* filtered_df of the current run
  button,     \* st.button("Generate AI Insights") of the current run
  metrics,    \* the metric cards shown in the current run
  stats,      \* data_summary passed to the text generator
  sumState,   \* the text generator: Idle, Requesting, Succeeded, Failed,
              \* FallbackRendered
  sent,       \* prompts sent to the service in the current invocation
  outcome,    \* "none", "ok", or the message of the raised exception
  result,     \* the text generator's return value
  figs,       \* chart tables computed by the callback, not yet returned
  outCharts,  \* chart tables of this interaction delivered for display
  outText,    \* summary text of this interaction delivered for display
  otherSpec,  \* FilterSpec of a second browser session
  otherView   \* filtered_df of the second session's script run

vars ==
  << app, file, df, pc, spec, view, button, metrics, stats, sumState, sent,
     outcome, result, figs, outCharts, outText, otherSpec, otherView >>

Apps == { "streamlit", "updated", "run" }

NoSpec ==
  [purposes |-> {}, housing_types |-> {}, age_min |-> 0, age_max |-> 0,
   credit_min |-> 0, credit_max |-> 0]

\* The file is there with all its columns, is not there, cannot be read
\* (pd.read_csv raises PermissionError, ParserError, UnicodeDecodeError),
\* or is there without one of the columns.
Files ==
  { [status |-> "ok", missing |-> "none", rows |-> t] : t \in RawTables }
  \cup { [status |-> st, missing |-> "none", rows |-> <<>>] :
           st \in { "absent", "unreadable" } }
  \cup { [status |-> "ok", missing |-> c, rows |-> ShortTable] :
           c \in Columns }

Init ==
  /\ app \in Apps
  /\ file \in Files
  /\ df = <<>>
  /\ pc = "start"
  /\ spec = NoSpec
  /\ view = <<>>
  /\ button = FALSE
  /\ metrics = NoMetrics
  /\ stats = NoStats
  /\ sumState = "Idle"
  /\ sent = <<>>
  /\ outcome = "none"
  /\ result = <<>>
  /\ figs = NoCharts
  /\ outCharts = NoCharts
  /\ outText = <<>>
  /\ otherSpec = NoSpec
  /\ otherView = <<>>

\* ----------------------------------------------------------------- load
\* The columns read before the first interaction: load_data() reads the
\* two account columns, Age and Credit amount; the dash modules also read
\* Duration for the header cards of app.layout.
LoadColumns(a) ==
  IF a = "streamlit"
  THEN { "Saving", "Checking", "Age", "Credit" }
  ELSE { "Saving", "Checking", "Age", "Credit", "Duration" }

\* A loader that answers a file it cannot open with a built-in dataset.
Load_default ==
  /\ pc = "start"
  /\ IF file.status = "ok" /\ file.missing \notin LoadColumns(app)
     THEN /\ df' = Clean(file.rows)
          /\ pc' = "ready"
     ELSE /\ df' = Clean(ShortTable)
          /\ pc' = "ready"
  /\ UNCHANGED << app, file, spec, view, button, metrics, stats, sumState,
                  sent, outcome, result, figs, outCharts, outText,
                  otherSpec, otherView >>

\* load_data() / the module-level pd.read_csv and app.layout.  A file that
\* is not there is reported by st.error and main() returns (streamlit);
\* every other exception, and every exception of the dash modules, leaves
\* the script or the import.
Load ==
  /\ pc = "start"
  /\ IF file.status = "ok" /\ file.missing \notin LoadColumns(app)
     THEN /\ df' = Clean(file.rows)
          /\ pc' = "ready"
     ELSE /\ df' = df
          /\ pc' = IF app = "streamlit" /\ file.status = "absent"
                   THEN "stopped" ELSE "crashed"
  /\ UNCHANGED << app, file, spec, view, button, metrics, stats, sumState,
                  sent, outcome, result, figs, outCharts, outText,
                  otherSpec, otherView >>

\* --------------------------------------------------- streamlit script run
\* The columns the sidebar widgets read that load_data() has not read.
WidgetColumns == { "Purpose", "Housing" }

\* A rerun that filters in place: df = df[mask].
ApplyFilter_inplace ==
  /\ app = "streamlit"
  /\ pc = "ready"
  /\ IF file.missing \in WidgetColumns
     THEN /\ pc' = "crashed"
          /\ UNCHANGED << spec, button, view, df >>
     ELSE /\ \E fs \in FilterSpecs(df), clicked \in BOOLEAN :
               /\ spec' = fs
               /\ button' = clicked
               /\ view' = Apply(df, fs)
               /\ df' = Apply(df, fs)
          /\ pc' = "metrics"
  /\ metrics' = NoMetrics
  /\ stats' = NoStats
  /\ sent' = <<>>
  /\ outcome' = "none"
  /\ result' = <<>>
  /\ outCharts' = NoCharts
  /\ outText' = <<>>
  /\ UNCHANGED << app, file, sumState, figs, otherSpec, otherView >>

\* One rerun of main() up to filtered_df: the widgets return their current
\* values and the mask is applied.  The page of the previous run is cleared.
\* df['Purpose'] or df['Housing'] of a file without that column raises
\* KeyError at the widget.
ApplyFilter ==
  /\ app = "streamlit"
  /\ pc = "ready"
  /\ IF file.missing \in WidgetColumns
     THEN /\ pc' = "crashed"
          /\ UNCHANGED << spec, button, view >>
     ELSE /\ \E fs \in FilterSpecs(df), clicked \in BOOLEAN :
               /\ spec' = fs
               /\ button' = clicked
               /\ view' = Apply(df, fs)
          /\ pc' = "metrics"
  /\ metrics' = NoMetrics
  /\ stats' = NoStats
  /\ sent' = <<>>
  /\ outcome' = "none"
  /\ result' = <<>>
  /\ outCharts' = NoCharts
  /\ outText' = <<>>
  /\ UNCHANGED << app, file, df, sumState, figs, otherSpec, otherView >>

\* The cards shown when filtered_df['Duration'] raises KeyError in the
\* third column: the first two are on the page.
CardsBeforeDuration(rows, all) ==
  [NoMetrics EXCEPT !.total = Metrics(rows, all).total,
                    !.total_delta = Metrics(rows, all).total_delta,
                    !.credit = Metrics(rows, all).credit,
                    !.credit_delta = Metrics(rows, all).credit_delta]

\* The four st.metric cards; then the button decides whether the summary
\* block runs before the charts.
ShowMetrics ==
  /\ pc = "metrics"
  /\ IF file.missing = "Duration"
     THEN /\ metrics' = CardsBeforeDuration(view, df)
          /\ pc' = "crashed"
     ELSE /\ metrics' = Metrics(view, df)
          /\ pc' = IF button THEN "summary" ELSE "charts"
  /\ UNCHANGED << app, file, df, spec, view, button, stats, sumState, sent,
                  outcome, result, figs, outCharts, outText, otherSpec,
                  otherView >>

\* A summary block that takes its statistics from the unfiltered dataset.
RequestAnalysis_stale ==
  /\ app = "streamlit"
  /\ pc = "summary"
  /\ sumState = "Idle"
  /\ stats' = Summary(df)
  /\ sent' = Append(sent, Prompt(app, Summary(df)))
  /\ sumState' = "Requesting"
  /\ pc' = "summarize"
  /\ UNCHANGED << app, file, df, spec, view, button, metrics, outcome,
                  result, figs, outCharts, outText, otherSpec, otherView >>

\* data_summary is built from filtered_df and generate_ai_analysis sends
\* its one request.
RequestAnalysis ==
  /\ app = "streamlit"
  /\ pc = "summary"
  /\ sumState = "Idle"
  /\ stats' = Summary(view)
  /\ sent' = Append(sent, Prompt(app, Summary(view)))
  /\ sumState' = "Requesting"
  /\ pc' = "summarize"
  /\ UNCHANGED << app, file, df, spec, view, button, metrics, outcome,
                  result, figs, outCharts, outText, otherSpec, otherView >>

\* The tables on the page when groupby(['Housing', 'Job']) raises KeyError:
\* the first row of charts has been drawn.
ChartsBeforeJob(tables) ==
  [NoCharts EXCEPT !.age_sex_counts = tables.age_sex_counts,
                   !.purpose_counts = tables.purpose_counts]

\* The charts section of main(): every table is computed from filtered_df
\* and handed to st.plotly_chart.  groupby(['Age_Group', 'Sex']) raises
\* KeyError before any chart when Sex is missing.
RenderCharts ==
  /\ app = "streamlit"
  /\ pc = "charts"
  /\ IF file.missing = "Sex"
     THEN /\ outCharts' = outCharts
          /\ pc' = "crashed"
     ELSE IF file.missing = "Job"
     THEN /\ \E t \in ChartTables(view) : outCharts' = ChartsBeforeJob(t)
          /\ pc' = "crashed"
     ELSE /\ outCharts' \in ChartTables(view)
          /\ pc' = "ready"
  /\ UNCHANGED << app, file, df, spec, view, button, metrics, stats,
                  sumState, sent, outcome, result, figs, outText, otherSpec,
                  otherView >>

\* A script run of another browser session over the same cached dataset.
OtherSpecs(rows) ==
  { DefaultSpec(rows),
    [DefaultSpec(rows) EXCEPT !.purposes = { "car" }] }

OtherSessionRun ==
  /\ app = "streamlit"
  /\ df # <<>>
  /\ file.missing \notin WidgetColumns
  /\ \E fs \in OtherSpecs(df) :
       /\ otherSpec' = fs
       /\ otherView' = Apply(df, fs)
  /\ UNCHANGED << app, file, df, pc, spec, view, button, metrics, stats,
                  sumState, sent, outcome, result, figs, outCharts, outText >>

\* -------------------------------------------------------- dash callbacks
\* The columns the figures of a dash callback read that the import has not
\* read: a file without one of them makes the callback raise KeyError
\* before its return statement.
ChartColumns == { "Sex", "Purpose", "Housing", "Job" }

\* update_all_charts up to the call of generate_credit_analysis: the eight
\* figures and data_summary are computed from df_clean, the request is sent.
UpdateAllCharts ==
  /\ app = "updated"
  /\ pc = "ready"
  /\ sumState = "Idle"
  /\ IF file.missing \in ChartColumns
     THEN /\ pc' = "crashed"
          /\ UNCHANGED << figs, stats, sent, sumState >>
     ELSE /\ figs' \in ChartTables(df)
          /\ stats' = Summary(df)
          /\ sent' = << Prompt(app, Summary(df)) >>
          /\ sumState' = "Requesting"
          /\ pc' = "summarize"
  /\ outcome' = "none"
  /\ result' = <<>>
  /\ outCharts' = NoCharts
  /\ outText' = <<>>
  /\ UNCHANGED << app, file, df, spec, view, button, metrics, otherSpec,
                  otherView >>

\* return fig1, ..., fig8, ai_analysis, data_store
ReturnAll ==
  /\ app = "updated"
  /\ pc = "return"
  /\ outCharts' = figs
  /\ outText' = result
  /\ figs' = NoCharts
  /\ pc' = "ready"
  /\ UNCHANGED << app, file, df, spec, view, button, metrics, stats,
                  sumState, sent, outcome, result, otherSpec, otherView >>

\* update_charts of run_dashboard.py: six figures, no summary.
UpdateCharts ==
  /\ app = "run"
  /\ pc = "ready"
  /\ IF file.missing \in ChartColumns
     THEN /\ outCharts' = outCharts
          /\ pc' = "crashed"
     ELSE /\ outCharts' \in ChartTables(df)
          /\ pc' = pc
  /\ UNCHANGED << app, file, df, spec, view, button, metrics, stats,
                  sumState, sent, outcome, result, figs, outText, otherSpec,
                  otherView >>

\* ----------------------------------------- generate_*_analysis, continued
\* client.chat.completions.create returns a response.
RequestSucceeds ==
  /\ sumState = "Requesting"
  /\ \E c \in Contents :
       result' = Live(app, c)
  /\ outcome' = "ok"
  /\ sumState' = "Succeeded"
  /\ UNCHANGED << app, file, df, pc, spec, view, button, metrics, stats,
                  sent, figs, outCharts, outText, otherSpec, otherView >>

\* client.chat.completions.create raises: the except branch is entered, or
\* the exception leaves the function when the handler does not match it.
RequestFails ==
  /\ sumState = "Requesting"
  /\ \E e \in Errors :
       /\ outcome' = e
       /\ IF e \in Caught
          THEN /\ sumState' = "Failed"
               /\ pc' = pc
          ELSE /\ sumState' = "Idle"
               /\ pc' = "raised"
  /\ UNCHANGED << app, file, df, spec, view, button, metrics, stats, sent,
                  result, figs, outCharts, outText, otherSpec, otherView >>

\* An except branch that sends the request once more before giving up.
RenderFallback_retry ==
  /\ sumState = "Failed"
  /\ IF Len(sent) < 2
     THEN /\ sent' = Append(sent, Prompt(app, stats))
          /\ sumState' = "Requesting"
          /\ result' = result
     ELSE /\ sent' = sent
          /\ sumState' = "FallbackRendered"
          /\ result' = Fallback(app, stats, outcome)
  /\ UNCHANGED << app, file, df, pc, spec, view, button, metrics, stats,
                  outcome, figs, outCharts, outText, otherSpec, otherView >>

\* The except branch builds the templated report.
RenderFallback ==
  /\ sumState = "Failed"
  /\ result' = Fallback(app, stats, outcome)
  /\ sumState' = "FallbackRendered"
  /\ UNCHANGED << app, file, df, pc, spec, view, button, metrics, stats,
                  sent, outcome, figs, outCharts, outText, otherSpec,
                  otherView >>

\* The function returns its string; streamlit shows it (st.markdown) and
\* goes on to the charts, the dash callback goes on to its return statement.
ReturnText ==
  /\ sumState \in { "Succeeded", "FallbackRendered" }
  /\ sumState' = "Idle"
  /\ IF app = "streamlit"
     THEN /\ outText' = result
          /\ pc' = "charts"
     ELSE /\ outText' = outText
          /\ pc' = "return"
  /\ UNCHANGED << app, file, df, spec, view, button, metrics, stats, sent,
                  outcome, result, figs, outCharts, otherSpec, otherView >>

\* ------------------------------------------- the filter on any FilterSpec
\* Every FilterSpec a caller can hand to the mask of main(): any subset of
\* the observed purposes and housing types, any two integers per range,
\* in order or not, from one below the observed minimum to one above the
\* observed maximum.
AnySpecs(rows) ==
  LET d == DefaultSpec(rows)
  IN  [purposes : SUBSET d.purposes,
       housing_types : SUBSET d.housing_types,
       age_min : (d.age_min - 1)..(d.age_max + 1),
       age_max : (d.age_min - 1)..(d.age_max + 1),
       credit_min : (d.credit_min - 1)..(d.credit_max + 1),
       credit_max : (d.credit_min - 1)..(d.credit_max + 1)]

\* The mask applied once to the loaded dataset with such a FilterSpec.
ApplySpec ==
  /\ pc = "ready"
  /\ file.missing \notin WidgetColumns
  /\ \E fs \in AnySpecs(df) :
       /\ spec' = fs
       /\ view' = Apply(df, fs)
  /\ pc' = "applied"
  /\ UNCHANGED << app, file, df, button, metrics, stats, sumState, sent,
                  outcome, result, figs, outCharts, outText, otherSpec,
                  otherView >>

\* One-record files whose Age runs over 0 .. MaxAge in steps of 1/Scale.
AgeFiles ==
  { [status |-> "ok", missing |-> "none",
     rows |-> << [ShortTable[1] EXCEPT !.Age = a] >>] :
      a \in 0..(MaxAge * Scale) }

InitAge ==
  /\ app \in Apps
  /\ file \in AgeFiles
  /\ df = <<>>
  /\ pc = "start"
  /\ spec = NoSpec
  /\ view = <<>>
  /\ button = FALSE
  /\ metrics = NoMetrics
  /\ stats = NoStats
  /\ sumState = "Idle"
  /\ sent = <<>>
  /\ outcome = "none"
  /\ result = <<>>
  /\ figs = NoCharts
  /\ outCharts = NoCharts
  /\ outText = <<>>
  /\ otherSpec = NoSpec
  /\ otherView = <<>>

NextAge == Load

SpecAge == InitAge /\ [][NextAge]_vars

NextFilter ==
  \/ Load
  \/ ApplySpec

SpecFilter == Init /\ [][NextFilter]_vars

Next ==
  \/ Load
  \/ ApplyFilter
  \/ ShowMetrics
  \/ RequestAnalysis
  \/ RenderCharts
  \/ OtherSessionRun
  \/ UpdateAllCharts
  \/ ReturnAll
  \/ UpdateCharts
  \/ RequestSucceeds
  \/ RequestFails
  \/ RenderFallback
  \/ ReturnText

Spec == Init /\ [][Next]_vars

\* ================================================================ claims

\* The four predicates of the filter contract, read off the spec sentence.
PurposeOk(r, fs) == r.Purpose \in fs.purposes

HousingOk(r, fs) == r.Housing \in fs.housing_types

AgeOk(r, fs) == fs.age_min * Scale <= r.Age /\ r.Age <= fs.age_max * Scale

CreditOk(r, fs) ==
  fs.credit_min * Scale <= r.Credit /\ r.Credit <= fs.credit_max * Scale

AllFourOk(r, fs) ==
  PurposeOk(r, fs) /\ HousingOk(r, fs) /\ AgeOk(r, fs) /\ CreditOk(r, fs)

FailsExactlyOne(r, fs) ==
  Cardinality({ k \in 1..4 :
                  \/ k = 1 /\ ~PurposeOk(r, fs)
                  \/ k = 2 /\ ~HousingOk(r, fs)
                  \/ k = 3 /\ ~AgeOk(r, fs)
                  \/ k = 4 /\ ~CreditOk(r, fs) }) = 1

\* The rows of `rows` at the positions in `keep`, in their order.
RECURSIVE Pick(_, _)
Pick(rows, keep) ==
  IF rows = <<>> THEN <<>>
  ELSE Pick(SubSeq(rows, 1, Len(rows) - 1), keep)
       \o (IF Len(rows) \in keep THEN << rows[Len(rows)] >> ELSE <<>>)

\* C1: the filtered view holds exactly the records of the dataset that
\* satisfy all four predicates (purpose and housing in the allow-lists, age
\* and credit amount inside the inclusive ranges), in dataset order: a
\* record failing a predicate is absent, a record passing all four is kept.
C1_FilterConjunction ==
  view = Pick(df, { i \in DOMAIN df : AllFourOk(df[i], spec) })

\* A run whose filter keeps one record and excludes another that fails
\* exactly one predicate.
C1_Witness ==
  /\ pc = "metrics"
  /\ view # <<>>
  /\ \E i \in DOMAIN df :
       /\ FailsExactlyOne(df[i], spec)
       /\ \A j \in DOMAIN view : view[j] # df[i]

\* C2: with the default FilterSpec the filtered view is the whole dataset,
\* same records in the same order.
C2_DefaultIsIdentity ==
  (app = "streamlit" /\ df # <<>> /\ spec = DefaultSpec(df)) => view = df

\* A result was returned by the except branch.
ReturnedFallback == outcome \in Errors /\ sumState = "Idle"

\* C3: a failed request never escapes the text generator as an exception,
\* and the string it returns is non-empty, also for a zero-record view.
C3_FallbackGuarantee ==
  /\ pc # "raised"
  /\ (outcome \in Errors /\ sumState \in { "FallbackRendered", "Idle" })
       => StrLen(result) > 0

\* The request failed for a zero-record view (NaN means) and the fallback
\* text was returned and shown.
C3_Witness ==
  /\ ReturnedFallback
  /\ stats.total_records = 0
  /\ stats.avg_credit.nan
  /\ outText = result
  /\ result # <<>>

ShowsNaN(m) ==
  \/ m.credit = "$nan"
  \/ m.credit_delta = "$nan"
  \/ m.duration = "nan months"
  \/ m.duration_delta = "nan months"
  \/ m.age = "nan years"
  \/ m.age_delta = "nan years"

\* C4: when the filter matches no record, the metric cards show a record
\* count of 0 and no mean or delta shows a not-a-number value.
C4_EmptyViewNoNaN ==
  (metrics # NoMetrics /\ view = <<>>)
    => (metrics.total = "0" /\ ~ShowsNaN(metrics))

SummaryTransitions ==
  { << "Idle", "Requesting" >>,
    << "Requesting", "Succeeded" >>,
    << "Requesting", "Failed" >>,
    << "Failed", "FallbackRendered" >>,
    << "Succeeded", "Idle" >>,
    << "FallbackRendered", "Idle" >> }

\* C5: the text generator only moves Idle -> Requesting -> Succeeded -> Idle
\* or Idle -> Requesting -> Failed -> FallbackRendered -> Idle; one
\* invocation sends at most one request, a failure is not retried, and
\* after a successful request the returned text is the live text, never a
\* fallback text.
C5_SummaryStateMachine ==
  /\ [][sumState' # sumState
          => << sumState, sumState' >> \in SummaryTransitions]_vars
  /\ [](Len(sent) <= 1)
  /\ [](outcome = "ok"
          => /\ result \in { Live(app, c) : c \in Contents }
             /\ result \notin { Fallback(app, stats, e) : e \in Errors })

\* The fallback has been rendered after the one request failed.
C5_Witness ==
  /\ sumState = "FallbackRendered"
  /\ Len(sent) = 1
  /\ outcome \in Errors

\* C6: while the summary request is pending, the charts of the same
\* interaction have already been delivered for display.
C6_ChartsDoNotWait ==
  sumState = "Requesting" => outCharts.made

\* C7: once loaded the dataset never changes, whatever the sessions do, and
\* each session's view is the one its own FilterSpec selects from it.
C7_DatasetImmutable ==
  /\ [][pc # "start" => df' = df]_vars
  /\ [](df # <<>>
          => /\ df = Clean(file.rows)
             /\ view = Pick(df, { i \in DOMAIN df : AllFourOk(df[i], spec) })
             /\ otherView =
                  Pick(df, { i \in DOMAIN df : AllFourOk(df[i], otherSpec) }))

\* Two sessions hold different views of the dataset while the first one's
\* summary request is in flight.
C7_Witness ==
  /\ sumState = "Requesting"
  /\ otherSpec # NoSpec
  /\ otherSpec # spec
  /\ view # <<>>
  /\ otherView # <<>>
  /\ view # otherView

\* The labels a record gets from the full unfiltered input.
LoadLabels(r) ==
  [age |-> AgeGroup(r.Age),
   credit |->
     CreditLabels[CreditBin(r.Credit,
                            SetMin(Column(file.rows, "Credit")),
                            SetMax(Column(file.rows, "Credit")))]]

\* C8: every record of every filtered view carries the age bracket and the
\* credit bucket it was given at load from the full dataset, and is a
\* record of the dataset with those same labels.
C8_BucketingStable ==
  \A v \in { view, otherView } :
    \A j \in DOMAIN v :
      /\ v[j].Age_Group = LoadLabels(v[j]).age
      /\ v[j].Credit_Amount_Group = LoadLabels(v[j]).credit
      /\ \E i \in DOMAIN df : df[i] = v[j]

\* A filtered view that is a proper part of the dataset and in which a
\* bucket cut from the view alone would differ from the label carried.
C8_Witness ==
  /\ pc = "charts"
  /\ view # <<>>
  /\ Len(view) < Len(df)
  /\ \E j \in DOMAIN view :
       CreditGroup(view[j].Credit, view) # view[j].Credit_Amount_Group

\* C9: the text returned after a failed request starts with a marker that
\* says it is a local fallback and contains the error's message.
C9_FallbackCarriesError ==
  ReturnedFallback
    => /\ result # <<>>
       /\ result[1] = DemoMarker
       /\ outcome \in Range(result)

\* C10: the text returned after a successful request is the service's
\* response behind the machine-generated marker.
C10_LiveMarker ==
  (outcome = "ok" /\ sumState = "Idle")
    => \E c \in Contents : result = << LiveMarker, c >>

\* C11: the text returned after a failed request prints the record count
\* of the SummaryStats it was given, in the line that reports the size.
C11_FallbackHasCount ==
  ReturnedFallback
    => \E k \in DOMAIN result :
         /\ result[k] = ToString(stats.total_records)
         /\ \/ k > 1 /\ result[k - 1] = "Portfolio size: "
            \/ k < Len(result)
                 /\ result[k + 1] = " credit applications analyzed"

\* A fallback text was returned for a filtered view of one record out of
\* two, so the count printed is neither zero nor the dataset size.
C11_Witness ==
  /\ ReturnedFallback
  /\ stats.total_records = 1
  /\ Len(df) = 2
  /\ outText = result

Inverted(fs) ==
  fs.age_min > fs.age_max \/ fs.credit_min > fs.credit_max

EmptyList(fs) == fs.purposes = {} \/ fs.housing_types = {}

\* C12: a FilterSpec with an inverted age or credit range, or with an empty
\* purpose or housing allow-list, selects no record; the filter returns
\* the empty view for it instead of failing.
C12_FilterTotal ==
  (pc = "applied" /\ (Inverted(spec) \/ EmptyList(spec)))
    => view = <<>>

\* The filter ran with the age range given upside down and nothing else in
\* the way: a record lies between the swapped ends and passes the three
\* other predicates, and the view is empty.
C12_Witness ==
  /\ pc = "applied"
  /\ spec.age_min > spec.age_max
  /\ view = <<>>
  /\ \E i \in DOMAIN df :
       /\ PurposeOk(df[i], spec)
       /\ HousingOk(df[i], spec)
       /\ CreditOk(df[i], spec)
       /\ spec.age_max * Scale <= df[i].Age
       /\ df[i].Age <= spec.age_min * Scale

\* One account cell after load against the same cell of the input.
Normalized(rawCell, cell) ==
  /\ cell # NaNCell
  /\ rawCell = NaNCell => cell = "unknown"
  /\ rawCell # NaNCell => cell = rawCell

\* C13: in the loaded dataset every saving-account and checking-account
\* level is present: "unknown" where the input cell was missing, the input
\* value otherwise; and every record of a filtered view is such a record.
C13_UnknownNormalized ==
  /\ \A i \in DOMAIN df :
       /\ Normalized(file.rows[i].Saving, df[i].Saving)
       /\ Normalized(file.rows[i].Checking, df[i].Checking)
  /\ \A v \in { view, otherView } :
       \A j \in DOMAIN v :
         /\ v[j].Saving # NaNCell
         /\ v[j].Checking # NaNCell
         /\ \E i \in DOMAIN df : v[j] = df[i]

\* The input had a missing saving level and a missing checking level, and
\* a filtered view holds the record whose saving level was missing.
C13_Witness ==
  /\ pc = "charts"
  /\ \E i \in DOMAIN df :
       /\ file.rows[i].Saving = NaNCell
       /\ \E j \in DOMAIN view : view[j] = df[i] /\ view[j].Saving = "unknown"
  /\ \E i \in DOMAIN df :
       file.rows[i].Checking = NaNCell /\ df[i].Checking = "unknown"

\* No step after load has left a trace: nothing filtered, counted, sent or
\* shown.
NothingRan ==
  /\ spec = NoSpec
  /\ view = <<>>
  /\ metrics = NoMetrics
  /\ stats = NoStats
  /\ sent = <<>>
  /\ result = <<>>
  /\ figs = NoCharts
  /\ outCharts = NoCharts
  /\ outText = <<>>
  /\ otherSpec = NoSpec
  /\ otherView = <<>>

\* C14: when the input file is absent or unreadable, load ends in a
\* reported error or a raised exception; no dataset, defaulted or partial,
\* exists afterwards, and no filter, aggregation or summary step runs.
C14_LoadFailureSurfaced ==
  (file.status # "ok" /\ pc # "start") =>
    /\ pc \in { "stopped", "crashed" }
    /\ app = "streamlit" /\ file.status = "absent" => pc = "stopped"
    /\ df = <<>>
    /\ NothingRan

\* Load has run on a file that is not there, or on one that cannot be read.
C14_Witness ==
  /\ file.status \in { "absent", "unreadable" }
  /\ pc \in { "stopped", "crashed" }
  /\ df = <<>>

\* C15: loading an input that lacks one of the nine expected columns fails
\* during load, before any filter, aggregation or chart step is reached.
C15_MissingColumnFailsAtLoad ==
  (file.missing \in Columns /\ pc # "start") =>
    /\ pc = "crashed"
    /\ df = <<>>
    /\ NothingRan

\* The records a delivered set of chart tables was counted from.
ChartRows == IF app = "streamlit" THEN view ELSE df

\* Position of a key value in the sort order of its column.
Rank(order, v) == CHOOSE n \in DOMAIN order : order[n] = v

KeyBefore(p, q, o1, o2) ==
  \/ Rank(o1, p[1]) < Rank(o1, q[1])
  \/ Rank(o1, p[1]) = Rank(o1, q[1]) /\ Rank(o2, p[2]) < Rank(o2, q[2])

HasKey(r, k1, k2, key) == r[k1] = key[1] /\ r[k2] = key[2]

\* Index of the first record that shows the key pair.
FirstIndex(rows, k1, k2, key) ==
  SetMin({ i \in DOMAIN rows : HasKey(rows[i], k1, k2, key) })

\* The table lists every key pair of the records, each row carries the
\* number of records with its pair, and the rows ascend in key order.
SortedCounts(tab, rows, k1, o1, k2, o2) ==
  /\ \A i \in DOMAIN rows :
       \E n \in DOMAIN tab : HasKey(rows[i], k1, k2, tab[n].key)
  /\ \A n \in DOMAIN tab :
       tab[n].Count =
         Cardinality({ i \in DOMAIN rows : HasKey(rows[i], k1, k2, tab[n].key) })
  /\ \A n, m \in DOMAIN tab :
       n < m => KeyBefore(tab[n].key, tab[m].key, o1, o2)

\* Rows of observed key pairs stand in the order the records first show
\* their pairs.
FirstSeenOrder(tab, rows, k1, k2) ==
  \A n, m \in DOMAIN tab :
    (n < m /\ tab[n].Count > 0 /\ tab[m].Count > 0) =>
      FirstIndex(rows, k1, k2, tab[n].key) < FirstIndex(rows, k1, k2, tab[m].key)

\* C16 as stated: the rows of the three grouped-count tables appear in
\* first-seen order of the key values observed in the view.
C16_GroupCountFirstSeen ==
  outCharts.made =>
    /\ FirstSeenOrder(outCharts.age_sex_counts, ChartRows, "Age_Group", "Sex")
    /\ FirstSeenOrder(outCharts.housing_job, ChartRows, "Housing", "Job")
    /\ FirstSeenOrder(outCharts.savings_checking, ChartRows,
                      "Saving", "Checking")

\* C16 amended: the rows of the three grouped-count tables appear in
\* ascending order of their keys (age brackets in bracket order, the other
\* keys in their sort order) whatever the order of the records; every key
\* pair of the view has one row with its exact count, any further row has
\* count zero, so the same view always gives the same rows in the same
\* order for its observed pairs.
C16_GroupCountSorted ==
  outCharts.made =>
    /\ SortedCounts(outCharts.age_sex_counts, ChartRows,
                    "Age_Group", AgeGroupOrder, "Sex", SexOrder)
    /\ SortedCounts(outCharts.housing_job, ChartRows,
                    "Housing", HousingOrder, "Job", JobOrder)
    /\ SortedCounts(outCharts.savings_checking, ChartRows,
                    "Saving", SavingOrder, "Checking", CheckingOrder)

\* A delivered housing x job table whose second row's pair was seen in the
\* records before its first row's pair.
C16_Witness ==
  /\ outCharts.made
  /\ \E n, m \in DOMAIN outCharts.housing_job :
       /\ n < m
       /\ FirstIndex(ChartRows, "Housing", "Job", outCharts.housing_job[m].key)
            < FirstIndex(ChartRows, "Housing", "Job",
                         outCharts.housing_job[n].key)

\* Index of the first record that shows the value in the column.
FirstIndexOf(rows, col, v) == SetMin({ i \in DOMAIN rows : rows[i][col] = v })

\* C17: the frequency table lists each distinct value once with its exact
\* number of occurrences, ordered by descending count with ties broken by
\* first-seen order.
C17_ValueCountsOrder ==
  outCharts.made =>
    LET tab == outCharts.purpose_counts
    IN  /\ \A i \in DOMAIN ChartRows :
             \E n \in DOMAIN tab : tab[n].key = ChartRows[i].Purpose
        /\ \A n \in DOMAIN tab :
             tab[n].Count =
               Cardinality({ i \in DOMAIN ChartRows :
                               ChartRows[i].Purpose = tab[n].key })
        /\ \A n, m \in DOMAIN tab :
             n < m =>
               \/ tab[n].Count > tab[m].Count
               \/ /\ tab[n].Count = tab[m].Count
                  /\ FirstIndexOf(ChartRows, "Purpose", tab[n].key)
                       < FirstIndexOf(ChartRows, "Purpose", tab[m].key)

RECURSIVE SumCounts(_)
SumCounts(tab) ==
  IF tab = <<>> THEN 0 ELSE tab[1].Count + SumCounts(Tail(tab))

\* The mean of one column over the records, as a fraction.
MeanIs(m, rows, col) ==
  IF rows = <<>> THEN m.nan
  ELSE /\ ~m.nan
       /\ m.num * Len(rows) * Scale = SumCol(rows, col) * m.den

\* C18: once a summary request has been made, the statistics passed to the
\* text generator are the record count and the means of the view this
\* interaction shows: the metric cards carry the same count and mean, every
\* delivered chart table counts the same records, and the prompt carries
\* these statistics.
C18_SummaryMatchesView ==
  sent # <<>> =>
    /\ stats.total_records = Len(ChartRows)
    /\ MeanIs(stats.avg_credit, ChartRows, "Credit")
    /\ MeanIs(stats.avg_age, ChartRows, "Age")
    /\ MeanIs(stats.avg_duration, ChartRows, "Duration")
    /\ \A n \in DOMAIN sent : sent[n] = Prompt(app, stats)
    /\ app = "streamlit" =>
         /\ metrics.total = ToString(stats.total_records)
         /\ metrics.credit = "$" \o Fmt0(stats.avg_credit)
         /\ metrics.age = Fmt0(stats.avg_age) \o " years"
    /\ \A c \in { figs, outCharts } :
         c.made =>
           /\ SumCounts(c.age_sex_counts) = stats.total_records
           /\ SumCounts(c.purpose_counts) = stats.total_records
           /\ SumCounts(c.housing_job) = stats.total_records
           /\ SumCounts(c.savings_checking) = stats.total_records

\* A summary was requested for a view that holds some but not all records
\* of the dataset, and the charts of that interaction have been drawn.
C18_Witness ==
  /\ app = "streamlit"
  /\ sent # <<>>
  /\ outText # <<>>
  /\ outCharts.made
  /\ view # <<>>
  /\ Len(view) < Len(df)

\* The bracket of an age of a/Scale years, interval by interval.
BracketOf(a, g) ==
  /\ (0 < a /\ a <= 25 * Scale) => g = "18-25"
  /\ (25 * Scale < a /\ a <= 35 * Scale) => g = "26-35"
  /\ (35 * Scale < a /\ a <= 45 * Scale) => g = "36-45"
  /\ (45 * Scale < a /\ a <= 55 * Scale) => g = "46-55"
  /\ (55 * Scale < a /\ a <= 100 * Scale) => g = "55+"
  /\ (a <= 0 \/ a > 100 * Scale) => g = NaNCell

\* C19: at load every record gets its age bracket by the right-inclusive
\* boundaries 0, 25, 35, 45, 55, 100: (0,25] -> "18-25", (25,35] -> "26-35",
\* (35,45] -> "36-45", (45,55] -> "46-55", (55,100] -> "55+"; every age
\* between 1 and 100 has exactly one bracket, an age outside (0,100] none.
C19_AgeBrackets ==
  \A i \in DOMAIN df :
    /\ BracketOf(df[i].Age, df[i].Age_Group)
    /\ df[i].Age = file.rows[i].Age
    /\ (1 * Scale <= df[i].Age /\ df[i].Age <= 100 * Scale) =>
         Cardinality({ n \in DOMAIN AgeGroupOrder :
                         AgeGroupOrder[n] = df[i].Age_Group }) = 1

\* A record aged exactly 25 has been loaded into the first bracket.
C19_Witness ==
  /\ pc = "ready"
  /\ \E i \in DOMAIN df :
       df[i].Age = 25 * Scale /\ df[i].Age_Group = "18-25"

====
